---- MODULE Spec2Model ----
(***************************************************************************)
(* Agentic RAG engine (open_webui/retrieval/agentic_rag.py).               *)
(*                                                                         *)
(* Text is modelled as a sequence of tokens (strings): the empty text is   *)
(* << >>, concatenation and f-strings are \o, and a token may be a word, a *)
(* brace, a blank or the body of a JSON object.  Python's None is the      *)
(* value None below.  Confidences are in tenths (0.5 is 5).  A Python dict *)
(* is a function whose DOMAIN is its set of keys.                          *)
(***************************************************************************)
EXTENDS Integers, Sequences, FiniteSets, Bags, TLC

\* ------------------------------------------------------------------ bounds
MaxIterBound == 2
MaxPassages == 2
MaxScore == 2
MaxTextLen == 4
MaxFaissCalls == 3

\* ------------------------------------------------------------- Python values
None == <<"<None>">>

Falsy(x) == x = None \/ x = << >>

\* x or y
Or(x, y) == IF Falsy(x) THEN y ELSE x

\* d.get(k, default)
Get(d, k, default) == IF k \in DOMAIN d THEN d[k] ELSE default

EmptyDict == << >>

\* str(e) of the exceptions a collaborator may raise
Errors == {"timeout"}

Max(a, b) == IF a >= b THEN a ELSE b

Min(a, b) == IF a <= b THEN a ELSE b

\* s[a:b] for 0 <= a, 0 <= b
Slice(s, a, b) == SubSeq(s, a + 1, Min(b, Len(s)))

\* s.find(tok): 0-based index of the first occurrence, -1 when absent
Find(s, tok) ==
  IF \E i \in 1..Len(s) : s[i] = tok
  THEN (CHOOSE i \in 1..Len(s) : s[i] = tok /\ \A j \in 1..(i - 1) : s[j] # tok) - 1
  ELSE -1

\* s.rfind(tok): 0-based index of the last occurrence, -1 when absent
RFind(s, tok) ==
  IF \E i \in 1..Len(s) : s[i] = tok
  THEN (CHOOSE i \in 1..Len(s) : s[i] = tok /\ \A j \in (i + 1)..Len(s) : s[j] # tok) - 1
  ELSE -1

RECURSIVE LStrip(_)
LStrip(s) == IF s # << >> /\ Head(s) = " " THEN LStrip(Tail(s)) ELSE s

RECURSIVE RStrip(_)
RStrip(s) ==
  IF s # << >> /\ s[Len(s)] = " " THEN RStrip(SubSeq(s, 1, Len(s) - 1)) ELSE s

\* s.strip()
Strip(s) == RStrip(LStrip(s))

\* ------------------------------------------------------------ JSON objects
\* The object a body token decodes to.
ObjOf(t) ==
  CASE t = "oaX" -> [needs_additional_data |-> TRUE, rewritten_query |-> <<"X">>,
                     reasoning |-> <<"r">>, confidence |-> 9]
    [] t = "oaNo" -> [needs_additional_data |-> FALSE, rewritten_query |-> None,
                      reasoning |-> <<"r">>, confidence |-> 9]
    [] t = "oaYes" -> [needs_additional_data |-> TRUE, rewritten_query |-> None,
                       reasoning |-> <<"r">>, confidence |-> 9]
    [] t = "ovOk" -> [is_correct |-> TRUE, is_relevant |-> TRUE,
                      reasoning |-> <<"r">>, confidence |-> 9]
    [] t = "ovWrong" -> [is_correct |-> FALSE, is_relevant |-> TRUE,
                         reasoning |-> <<"r">>, confidence |-> 9]
    [] t = "ovOff" -> [is_correct |-> TRUE, is_relevant |-> FALSE,
                       reasoning |-> <<"r">>, confidence |-> 9]
    [] t = "opT1" -> [tools_to_use |-> <<[server_id |-> "p1", tool_name |-> "t1"]>>,
                      reasoning |-> <<"r">>]
    [] t = "opT1T2" -> [tools_to_use |-> <<[server_id |-> "p1", tool_name |-> "t1"],
                                            [server_id |-> "p1", tool_name |-> "t2"]>>,
                        reasoning |-> <<"r">>]
    [] t = "opOther" -> [tools_to_use |-> <<[server_id |-> "p9", tool_name |-> "t1"],
                                             [server_id |-> "p1", tool_name |-> "t9"]>>,
                         reasoning |-> <<"r">>]
    [] t = "opList" -> [tools_to_use |-> <<[server_id |-> "<list>", tool_name |-> "t1"],
                                            [server_id |-> "p1", tool_name |-> "t2"]>>,
                        reasoning |-> <<"r">>]
    [] OTHER -> EmptyDict

ObjTokens ==
  {"oaX", "oaNo", "oaYes", "ovOk", "ovWrong", "ovOff", "opT1", "opT1T2", "opOther",
   "opList"}

\* json.loads(json_str): a dict, or JSONDecodeError
JsonLoads(s) ==
  IF s = <<"{", "}">> THEN [ok |-> TRUE, value |-> EmptyDict]
  ELSE IF Len(s) = 3 /\ s[1] = "{" /\ s[3] = "}" /\ s[2] \in ObjTokens
       THEN [ok |-> TRUE, value |-> ObjOf(s[2])]
       ELSE [ok |-> FALSE, value |-> EmptyDict]

\* The whole text decoded, not the span between the braces
ExtractJsonWholeText(content) ==
  LET r == JsonLoads(content) IN [found |-> r.ok, value |-> r.value]

\* The span from the first "{" to the last "}" decoded; found = FALSE is the
\* path on which the caller falls back (no "{", or JSONDecodeError).
ExtractJson(content) ==
  LET bracket_start == Find(content, "{")
      bracket_end == RFind(content, "}") + 1
  IN IF bracket_start # -1 /\ bracket_end # -1
     THEN LET r == JsonLoads(Slice(content, bracket_start, bracket_end))
          IN [found |-> r.ok, value |-> r.value]
     ELSE [found |-> FALSE, value |-> EmptyDict]

\* ------------------------------------------------------------ the gateway
\* A gateway call raises, or returns a response whose "choices" key is
\* missing, is an empty list, or holds a first choice with this content.
Raise(e) == [kind |-> "raise", err |-> e, content |-> << >>]

NoChoicesKey == [kind |-> "missing", err |-> "", content |-> << >>]

EmptyChoices == [kind |-> "empty", err |-> "", content |-> << >>]

Content(c) == [kind |-> "ok", err |-> "", content |-> c]

\* response.get("choices", [{}])[0].get("message", {}).get("content", "")
\* after await self._call_llm(...): the text read, or the exception raised.
ChoiceContent(resp) ==
  CASE resp.kind = "raise" -> [raised |-> TRUE, err |-> resp.err, content |-> << >>]
    [] resp.kind = "empty" -> [raised |-> TRUE, err |-> "IndexError", content |-> << >>]
    [] resp.kind = "missing" -> [raised |-> FALSE, err |-> "", content |-> << >>]
    [] OTHER -> [raised |-> FALSE, err |-> "", content |-> resp.content]

\* text.lower() of one token
Lower(t) == CASE t = "Yes" -> "yes" [] t = "No" -> "no" [] OTHER -> t

\* word in text_lower: a substring test, told per token
TokenContains(t, word) ==
  \/ Lower(t) = word
  \/ Lower(t) = "required" /\ word = "require"
  \/ Lower(t) = "needed" /\ word = "need"
  \/ Lower(t) = "know" /\ word = "no"
  \/ Lower(t) = "nothing" /\ word = "no"
  \/ Lower(t) = "irrelevant" /\ word = "relevant"
  \/ Lower(t) = "incorrect" /\ word = "correct"
  \/ t \in {"oaX", "oaNo", "oaYes"} /\ word = "need"
  \/ t \in {"oaX", "oaYes", "ovOk", "ovWrong", "ovOff"} /\ word = "true"
  \/ t \in {"oaNo", "ovWrong", "ovOff"} /\ word = "false"

AnyWord(text, words) ==
  \E i \in 1..Len(text) : \E w \in words : TokenContains(text[i], w)

\* -------------------------------------------------------- 4.1 analyze_query
QueryAnalysisResult(needs, rewritten, reasoning, confidence) ==
  [needs_additional_data |-> needs, rewritten_query |-> rewritten,
   reasoning |-> reasoning, confidence |-> confidence]

\* The heuristic with "require" missing from its lexicon
parse_analysis_from_text_short_lexicon(text) ==
  [needs_additional_data |-> AnyWord(text, {"need", "yes", "true"}),
   rewritten_query |-> None, reasoning |-> text, confidence |-> 6]

parse_analysis_from_text(text) ==
  [needs_additional_data |-> AnyWord(text, {"need", "require", "yes", "true"}),
   rewritten_query |-> None, reasoning |-> text, confidence |-> 6]

\* analyze_query failing closed: on an error no additional data is asked for
analyze_query_fail_closed(query, resp) ==
  LET got == ChoiceContent(resp) IN
  IF got.raised
  THEN QueryAnalysisResult(FALSE, query, <<"Error during analysis: ", got.err>>, 5)
  ELSE LET ex == ExtractJson(got.content)
           result == IF ex.found THEN ex.value
                     ELSE parse_analysis_from_text(got.content)
       IN QueryAnalysisResult(Get(result, "needs_additional_data", TRUE),
                              Or(Get(result, "rewritten_query", None), query),
                              Get(result, "reasoning", << >>),
                              Get(result, "confidence", 8))

analyze_query(query, resp) ==
  LET got == ChoiceContent(resp) IN
  IF got.raised
  THEN QueryAnalysisResult(TRUE, query, <<"Error during analysis: ", got.err>>, 5)
  ELSE LET ex == ExtractJson(got.content)
           result == IF ex.found THEN ex.value
                     ELSE parse_analysis_from_text(got.content)
       IN QueryAnalysisResult(Get(result, "needs_additional_data", TRUE),
                              Or(Get(result, "rewritten_query", None), query),
                              Get(result, "reasoning", << >>),
                              Get(result, "confidence", 8))

\* ------------------------------------------------------ 4.6 validate_answer
AnswerValidationResult(is_correct, is_relevant, reasoning, confidence) ==
  [is_correct |-> is_correct, is_relevant |-> is_relevant,
   reasoning |-> reasoning, confidence |-> confidence,
   is_valid |-> is_correct /\ is_relevant]

parse_validation_from_text(text) ==
  [is_correct |-> ~AnyWord(text, {"incorrect", "wrong", "false", "no"}),
   is_relevant |-> ~AnyWord(text, {"irrelevant", "not relevant", "no"}),
   reasoning |-> text, confidence |-> 6]

validate_answer(query, answer, resp) ==
  LET got == ChoiceContent(resp) IN
  IF got.raised
  THEN AnswerValidationResult(TRUE, TRUE, <<"Error during validation: ", got.err>>, 5)
  ELSE LET ex == ExtractJson(got.content)
           result == IF ex.found THEN ex.value
                     ELSE parse_validation_from_text(got.content)
       IN AnswerValidationResult(Get(result, "is_correct", TRUE),
                                 Get(result, "is_relevant", TRUE),
                                 Get(result, "reasoning", << >>),
                                 Get(result, "confidence", 8))

\* ------------------------------------------------------ 4.5 generate_answer
\* The prompt built from context and mcp_results decides nothing here; the
\* answer is the gateway's text, or the error description.
generate_answer(query, context, mcp_results, resp) ==
  LET got == ChoiceContent(resp) IN
  IF got.raised THEN <<"Error generating answer: ", got.err>> ELSE got.content

\* ------------------------------------------------------------ rewrite_query
rewrite_query(original_query, answer, validation_result, resp) ==
  LET got == ChoiceContent(resp) IN
  IF got.raised THEN original_query
  ELSE IF got.content # << >> THEN Strip(got.content) ELSE original_query

\* ------------------------------------------------ 4.4 rerank_search_results
\* A source is a dict with optional keys "document" (its passages) and
\* "metadata".  A passage is one token; NonePassage is a passage that is
\* not a str.
NonePassage == "<None>"

HasDocument(r) == "document" \in DOMAIN r

\* zip(a, b, c): as long as its shortest argument
Zip3(a, b, c) ==
  [i \in 1..Min(Len(a), Min(Len(b), Len(c))) |-> <<a[i], b[i], c[i]>>]

\* One step of a stable descending sort of <<item, key>> pairs: x goes
\* after every element whose key is not smaller.
RECURSIVE InsertDesc(_, _)
InsertDesc(sorted, x) ==
  IF sorted = << >> THEN <<x>>
  ELSE IF Head(sorted)[2] >= x[2]
       THEN <<Head(sorted)>> \o InsertDesc(Tail(sorted), x)
       ELSE <<x>> \o sorted

RECURSIVE SortedDescPairs(_)
SortedDescPairs(s) ==
  IF s = << >> THEN << >>
  ELSE InsertDesc(SortedDescPairs(SubSeq(s, 1, Len(s) - 1)), s[Len(s)])

\* sorted(items, key=...) without reverse=True: ascending
SortedAscending(items, keys) ==
  LET sorted == SortedDescPairs([i \in 1..Len(items) |-> <<items[i], 0 - keys[i]>>])
  IN [i \in 1..Len(sorted) |-> sorted[i][1]]

\* sorted(items, key=..., reverse=True) with keys[i] the key of items[i]:
\* stable, equal keys keep their order
SortedDesc(items, keys) ==
  LET sorted == SortedDescPairs([i \in 1..Len(items) |-> <<items[i], keys[i]>>])
  IN [i \in 1..Len(sorted) |-> sorted[i][1]]

\* The (query, passage) pairs sent to the scorer, in batch order
RECURSIVE Sentences(_)
Sentences(search_results) ==
  IF search_results = << >> THEN << >>
  ELSE (IF HasDocument(Head(search_results)) THEN Head(search_results)["document"]
        ELSE << >>) \o Sentences(Tail(search_results))

\* doc_scores without the 0.0 of line 295: only the scores returned
DocScoresNoPadding(n, idx, reranked_scores) ==
  [i \in 1..Min(n, Max(Len(reranked_scores) - idx, 0)) |-> reranked_scores[idx + i]]

\* doc_scores of a source whose first passage is the idx-th (0-based) pair
DocScores(n, idx, reranked_scores) ==
  [i \in 1..n |-> IF idx + i - 1 < Len(reranked_scores)
                  THEN reranked_scores[idx + i] ELSE 0]

\* Lines 288-306 without lines 305-306: the passages are reordered and the
\* metadata is left as it was
RerankOneDocumentsOnly(result, idx, reranked_scores) ==
  IF ~HasDocument(result) THEN result
  ELSE LET doc_scores == DocScores(Len(result["document"]), idx, reranked_scores)
       IN IF doc_scores = << >> THEN result
          ELSE LET zipped == Zip3(result["document"],
                                  Get(result, "metadata", << >>), doc_scores)
                   sorted_pairs ==
                     SortedDesc(zipped, [i \in 1..Len(zipped) |-> zipped[i][3]])
                   docs == [i \in 1..Len(sorted_pairs) |-> sorted_pairs[i][1]]
               IN [key \in DOMAIN result |->
                     IF key = "document" THEN docs ELSE result[key]]

\* Lines 288-306 for one source
RerankOne(result, idx, reranked_scores) ==
  IF ~HasDocument(result) THEN result
  ELSE LET doc_scores == DocScores(Len(result["document"]), idx, reranked_scores)
       IN IF doc_scores = << >> THEN result
          ELSE LET zipped == Zip3(result["document"],
                                  Get(result, "metadata", << >>), doc_scores)
                   sorted_pairs ==
                     SortedDesc(zipped, [i \in 1..Len(zipped) |-> zipped[i][3]])
                   docs == [i \in 1..Len(sorted_pairs) |-> sorted_pairs[i][1]]
                   metas == [i \in 1..Len(sorted_pairs) |-> sorted_pairs[i][2]]
               IN [key \in DOMAIN result |->
                     IF key = "document" THEN docs
                     ELSE IF key = "metadata" THEN metas ELSE result[key]]

\* idx never passes len(reranked_scores): it advances only as a score is used
RECURSIVE RerankEach(_, _, _)
RerankEach(search_results, idx, reranked_scores) ==
  IF search_results = << >> THEN << >>
  ELSE LET r == Head(search_results)
           used == IF HasDocument(r)
                   THEN Min(Len(r["document"]), Max(Len(reranked_scores) - idx, 0))
                   ELSE 0
       IN <<RerankOne(r, idx, reranked_scores)>>
          \o RerankEach(Tail(search_results), idx + used, reranked_scores)

\* The key of lines 310-319: the scores zipped in are all 0.0
SourceKeyRaises(r) ==
  /\ Get(r, "document", << >>) # << >>
  /\ Get(r, "metadata", << >>) = << >>

SourceKey(r) == 0

\* The pass going on after a failed scorer call, as if no score was returned
rerank_search_results_after_failure(search_results, has_reranking_function, scorer) ==
  IF ~has_reranking_function \/ search_results = << >> THEN search_results
  ELSE IF Sentences(search_results) = << >> THEN search_results
  ELSE LET each == RerankEach(search_results, 0, scorer.scores)
       IN IF \E i \in 1..Len(each) : SourceKeyRaises(each[i]) THEN each
          ELSE SortedDesc(each, [i \in 1..Len(each) |-> SourceKey(each[i])])

\* scorer: [raises |-> BOOLEAN, scores |-> sequence of numbers]
rerank_search_results(search_results, has_reranking_function, scorer) ==
  IF ~has_reranking_function \/ search_results = << >> THEN search_results
  ELSE IF Sentences(search_results) = << >> THEN search_results
  ELSE IF scorer.raises THEN search_results
  ELSE LET each == RerankEach(search_results, 0, scorer.scores)
       IN IF \E i \in 1..Len(each) : SourceKeyRaises(each[i]) THEN each
          ELSE SortedDesc(each, [i \in 1..Len(each) |-> SourceKey(each[i])])

\* ------------------------------------------- 4.2 interact_with_mcp_servers
\* mcp_clients: the registered provider ids in dict order.
\* listing[p]: what client p's list_tool_specs() does: raises, or the names
\* of its tool specs.  callRaises[i]: whether the i-th planned invocation's
\* call_tool raises.
InSeq(x, s) == \E i \in 1..Len(s) : s[i] = x

RECURSIVE AvailableTools(_, _)
AvailableTools(mcp_clients, listing) ==
  IF mcp_clients = << >> THEN << >>
  ELSE LET server_id == Head(mcp_clients)
           l == listing[server_id]
       IN (IF l.raises THEN << >>
           ELSE [i \in 1..Len(l.tools) |->
                   [server_id |-> server_id, tool_name |-> l.tools[i]]])
          \o AvailableTools(Tail(mcp_clients), listing)

ToolResult(server_id, tool_name, query) ==
  [server_id |-> server_id, tool_name |-> tool_name, result |-> "res", query |-> query]

\* A provider id the model wrote as a JSON list: `server_id in mcp_clients`
\* raises TypeError (unhashable), outside the try of lines 242-253
UnhashableId == "<list>"

EntryRaises(tool_info) == tool_info.server_id = UnhashableId

\* The plan entries the loop of line 236 goes through before an entry raises
\* into the except of line 255
PlanReached(tools_to_use) ==
  LET bad == {i \in 1..Len(tools_to_use) : EntryRaises(tools_to_use[i])}
  IN IF bad = {} THEN tools_to_use
     ELSE SubSeq(tools_to_use, 1, (CHOOSE i \in bad : \A j \in bad : i <= j) - 1)

\* Lines 236-253: plan entries i..Len(tools_to_use)
RECURSIVE ExecuteTools(_, _, _, _, _)
ExecuteTools(tools_to_use, i, mcp_clients, callRaises, query) ==
  IF i > Len(tools_to_use) THEN << >>
  ELSE LET tool_info == tools_to_use[i]
       IN IF EntryRaises(tool_info) THEN << >>
          ELSE (IF InSeq(tool_info.server_id, mcp_clients) /\ ~callRaises[i]
                THEN <<ToolResult(tool_info.server_id, tool_info.tool_name, query)>>
                ELSE << >>)
               \o ExecuteTools(tools_to_use, i + 1, mcp_clients, callRaises, query)

\* The plan entries whose call_tool is called
InvokedTools(tools_to_use, mcp_clients) ==
  SelectSeq(PlanReached(tools_to_use), LAMBDA t : InSeq(t.server_id, mcp_clients))

\* The orchestrator without the return of lines 192-193: the model is asked
\* for a plan even when no tool spec was enumerated
interact_with_mcp_servers_always_plans(query, mcp_clients, listing, planResp, callRaises) ==
  LET none == [results |-> << >>, planned |-> FALSE, available |-> << >>,
               invoked |-> << >>]
  IN IF mcp_clients = << >> THEN none
     ELSE LET available_tools == AvailableTools(mcp_clients, listing)
              got == ChoiceContent(planResp)
              asked == [none EXCEPT !.available = available_tools, !.planned = TRUE]
          IN IF got.raised THEN asked
             ELSE LET ex == ExtractJson(got.content)
                      tools_to_use == Get(ex.value, "tools_to_use", << >>)
                  IN IF ~ex.found THEN asked
                     ELSE [asked EXCEPT
                             !.results = ExecuteTools(tools_to_use, 1, mcp_clients,
                                                      callRaises, query),
                             !.invoked = InvokedTools(tools_to_use, mcp_clients)]

\* results: the list returned; planned: the planning gateway call was made;
\* available: the catalogue sent to the model; invoked: the call_tool calls.
interact_with_mcp_servers(query, mcp_clients, listing, planResp, callRaises) ==
  LET none == [results |-> << >>, planned |-> FALSE, available |-> << >>,
               invoked |-> << >>]
  IN IF mcp_clients = << >> THEN none
     ELSE LET available_tools == AvailableTools(mcp_clients, listing)
              listed == [none EXCEPT !.available = available_tools]
          IN IF available_tools = << >> THEN listed
             ELSE LET got == ChoiceContent(planResp)
                      asked == [listed EXCEPT !.planned = TRUE]
                  IN IF got.raised THEN asked
                     ELSE LET ex == ExtractJson(got.content)
                              tools_to_use == Get(ex.value, "tools_to_use", << >>)
                          IN IF ~ex.found THEN asked
                             ELSE [asked EXCEPT
                                     !.results = ExecuteTools(tools_to_use, 1, mcp_clients,
                                                              callRaises, query),
                                     !.invoked = InvokedTools(tools_to_use, mcp_clients)]

\* ------------------------------------------------------------ 4.7 process()
VARIABLES
  max_iterations,          \* self.max_iterations
  has_reranking_function,  \* bool(self.reranking_function)
  mcp_clients,             \* self.mcp_clients: provider ids in dict order
  query,                   \* process(query, ...)
  collection_names,        \* process(..., collection_names, ...)
  k_reranker,              \* process(..., k_reranker=3, ...)
  pc,                      \* where process() stands
  current_query, iteration, best_answer, best_sources,
  mcp_defined,             \* 'mcp_results' in locals()
  mcp_results, sources, analysis, context, answer, validation,
  result,                  \* what process() returned
  calls,                   \* the calls of the current attempt, in order
  acceptedAt,              \* the attempt whose validation was valid, or 0
  everProduced,            \* some attempt's generate_answer returned text
  rr_pc,                   \* a lone rerank_search_results call: "idle", "in", "out"
  rr_function,             \* its bool(self.reranking_function)
  rr_input,                \* its search_results as passed
  rr_scorer,               \* what its reranking function did
  rr_output,               \* its search_results as returned
  call_pc,                 \* a lone call of one stage: "idle", "in", "out"
  call_op,                 \* the stage called
  call_args,               \* its arguments
  call_resp,               \* what its collaborators did
  call_out,                \* what it returned
  inv,                     \* two process() calls in flight: the locals of each
  alone,                   \* the locals of each, were it run alone
  fa_pc,                   \* FaissClient calls made so far, or "idle"
  fa_indices,              \* self.indices
  fa_doc_stores,           \* self.doc_stores
  fa_raised,               \* the last FaissClient call raised
  fa_found                 \* what the last search returned, with the hit of each

procVars ==
  <<max_iterations, has_reranking_function, mcp_clients, query, collection_names,
    k_reranker, pc, current_query, iteration, best_answer, best_sources,
    mcp_defined, mcp_results, sources, analysis, context, answer, validation,
    result, calls, acceptedAt, everProduced>>

rerankVars == <<rr_pc, rr_function, rr_input, rr_scorer, rr_output>>

callVars == <<call_pc, call_op, call_args, call_resp, call_out>>

pairVars == <<inv, alone>>

faissVars == <<fa_pc, fa_indices, fa_doc_stores, fa_raised, fa_found>>

vars == <<procVars, rerankVars, callVars, pairVars, faissVars>>

config ==
  <<max_iterations, has_reranking_function, mcp_clients, query, collection_names,
    k_reranker>>

DefaultKReranker == 3

DefaultMaxIterations == 3

FallbackAnswer == <<"Unable to generate a satisfactory answer.">>

Unbound == <<"<unbound>">>

NoResult ==
  [answer |-> Unbound, sources |-> << >>, mcp_results |-> << >>, iterations |-> -1,
   final_query |-> Unbound]

\* A call made by process(): the stage, whether it hit its fault path, and
\* the query (or, for generate_answer, the context) it was given
Call(op, raised, arg) == [op |-> op, raised |-> raised, arg |-> arg]

\* A call with the working query it was given next to its main argument
CallWithQuery(op, raised, arg, q) == [op |-> op, raised |-> raised, arg |-> arg, query |-> q]

\* A call with the value it returned
CallRet(op, raised, arg, ret) == [op |-> op, raised |-> raised, arg |-> arg, ret |-> ret]

\* What the collaborators may answer in a run of process()
AnalyzeResponses ==
  {Raise(e) : e \in Errors}
  \cup {Content(<<"Yes", "{", "oaX", "}">>), Content(<<"{", "oaNo", "}">>),
        Content(<<"required">>)}

PlanResponses ==
  {Raise(e) : e \in Errors}
  \cup {Content(<<"{", "opT1T2", "}">>), Content(<<"{", "opOther", "}">>),
        Content(<<"none">>)}

Listings == {[raises |-> TRUE, tools |-> << >>], [raises |-> FALSE, tools |-> << >>],
             [raises |-> FALSE, tools |-> <<"t1", "t2">>]}

CallOutcomes == {<<FALSE, FALSE>>, <<TRUE, FALSE>>}

SourceA == [document |-> <<"a", "b">>, metadata |-> <<"ma", "mb">>]

SourceB == [document |-> <<"c">>, metadata |-> <<"mc">>]

SourceNone == [document |-> <<NonePassage>>, metadata |-> <<"mn">>]

\* query_collection / query_collection_with_hybrid_search: raises, or a list
StoreOutcomes ==
  {[raises |-> TRUE, sources |-> << >>], [raises |-> FALSE, sources |-> << >>],
   [raises |-> FALSE, sources |-> <<SourceA, SourceB>>],
   [raises |-> FALSE, sources |-> <<SourceNone>>]}

ScorerOutcomes ==
  {[raises |-> TRUE, scores |-> << >>], [raises |-> FALSE, scores |-> <<1, 9, 5>>],
   [raises |-> FALSE, scores |-> <<9, 1, 5>>], [raises |-> FALSE, scores |-> <<5>>]}

GenerateResponses ==
  {Raise(e) : e \in Errors} \cup {NoChoicesKey, Content(<<"a1">>)}

ValidateResponses ==
  {Raise(e) : e \in Errors}
  \cup {EmptyChoices, Content(<<"{", "ovOk", "}">>), Content(<<"{", "ovWrong", "}">>),
        Content(<<"{", "ovOff", "}">>)}

RewriteResponses ==
  {Raise(e) : e \in Errors} \cup {Content(<<"qr">>), Content(<<" ">>)}

NoScorer == [raises |-> FALSE, scores |-> << >>]

RerankIdle ==
  /\ rr_pc = "idle"
  /\ rr_function = FALSE
  /\ rr_input = << >>
  /\ rr_scorer = NoScorer
  /\ rr_output = << >>

CallIdle ==
  /\ call_pc = "idle"
  /\ call_op = "none"
  /\ call_args = << >>
  /\ call_resp = << >>
  /\ call_out = << >>

PairIdle ==
  /\ inv = << >>
  /\ alone = << >>

FaissIdle ==
  /\ fa_pc = "idle"
  /\ fa_indices = EmptyDict
  /\ fa_doc_stores = EmptyDict
  /\ fa_raised = FALSE
  /\ fa_found = << >>

\* The locals of process() as it is entered
ProcessEntry ==
  /\ current_query = query
  /\ iteration = 0
  /\ best_answer = None
  /\ best_sources = << >>
  /\ mcp_defined = FALSE
  /\ mcp_results = << >>
  /\ sources = << >>
  /\ analysis = QueryAnalysisResult(FALSE, Unbound, Unbound, 0)
  /\ context = Unbound
  /\ answer = Unbound
  /\ validation = AnswerValidationResult(FALSE, FALSE, Unbound, 0)
  /\ result = NoResult
  /\ calls = << >>
  /\ acceptedAt = 0
  /\ everProduced = FALSE

\* No process() call is under way
ProcessIdle ==
  /\ max_iterations = DefaultMaxIterations
  /\ has_reranking_function = FALSE
  /\ mcp_clients = << >>
  /\ query = << >>
  /\ collection_names = << >>
  /\ k_reranker = DefaultKReranker
  /\ pc = "idle"
  /\ ProcessEntry

Init ==
  /\ RerankIdle
  /\ CallIdle
  /\ PairIdle
  /\ FaissIdle
  /\ max_iterations \in (-1)..MaxIterBound
  /\ has_reranking_function \in BOOLEAN
  /\ mcp_clients \in {<< >>, <<"p1">>}
  /\ query \in {<<"q">>}
  /\ collection_names \in {<< >>, <<"c1">>}
  /\ k_reranker \in {1, DefaultKReranker}
  /\ pc = "loop"
  /\ ProcessEntry

\* The loop test off by one
LoopConditionInclusive(it, max) == it <= max

\* while iteration < self.max_iterations
LoopCondition(it, max) == it < max

\* Lines 516-517
LoopTest ==
  /\ pc = "loop"
  /\ IF LoopCondition(iteration, max_iterations)
     THEN /\ iteration' = iteration + 1
          /\ calls' = << >>
          /\ pc' = "analyze"
     ELSE /\ pc' = "return"
          /\ UNCHANGED <<iteration, calls>>
  /\ UNCHANGED <<config, current_query, best_answer, best_sources, mcp_defined,
                 mcp_results, sources, analysis, context, answer, validation, result,
                 acceptedAt, everProduced>>
  /\ UNCHANGED <<rerankVars, callVars, pairVars, faissVars>>

\* Lines 525-528: the working query after the analysis
AdoptRewritten(a, current) ==
  IF ~Falsy(a.rewritten_query) /\ a.rewritten_query # current
  THEN a.rewritten_query ELSE current

\* Step 1, lines 520-528
Analyze ==
  /\ pc = "analyze"
  /\ \E resp \in AnalyzeResponses :
       LET a == analyze_query(current_query, resp) IN
       /\ analysis' = a
       /\ current_query' = AdoptRewritten(a, current_query)
       /\ calls' = Append(calls, Call("analyze_query", ChoiceContent(resp).raised,
                                      current_query))
  /\ pc' = "mcp"
  /\ UNCHANGED <<config, iteration, best_answer, best_sources, mcp_defined, mcp_results,
                 sources, context, answer, validation, result, acceptedAt, everProduced>>
  /\ UNCHANGED <<rerankVars, callVars, pairVars, faissVars>>

\* Step 2, lines 530-534
Mcp ==
  /\ pc = "mcp"
  /\ mcp_defined' = TRUE
  /\ IF analysis.needs_additional_data /\ mcp_clients # << >>
     THEN \E l \in Listings, planResp \in PlanResponses, callRaises \in CallOutcomes :
            LET r == interact_with_mcp_servers(current_query, mcp_clients,
                                               [p \in {"p1"} |-> l], planResp, callRaises)
            IN /\ mcp_results' = r.results
               /\ calls' = calls
                             \o <<Call("interact_with_mcp_servers", FALSE, current_query)>>
                             \o (IF r.planned
                                 THEN <<Call("tool_planning", ChoiceContent(planResp).raised,
                                             current_query)>>
                                 ELSE << >>)
     ELSE /\ mcp_results' = << >>
          /\ calls' = calls
  /\ pc' = "retrieve"
  /\ UNCHANGED <<config, current_query, iteration, best_answer, best_sources, sources,
                 analysis, context, answer, validation, result, acceptedAt, everProduced>>
  /\ UNCHANGED <<rerankVars, callVars, pairVars, faissVars>>

\* The store query without its try: the exception leaves process()
QueryCollectionsNoTry(out) == [raised |-> out.raises, sources |-> out.sources]

\* Lines 539-563: the store query inside its try; an exception is logged and
\* sources stays []
QueryCollections(out) ==
  IF out.raises THEN [raised |-> FALSE, sources |-> << >>]
  ELSE [raised |-> FALSE, sources |-> out.sources]

\* The store queried whenever collections were named, whatever the analysis
RetrieveWithoutNeed ==
  /\ pc = "retrieve"
  /\ IF collection_names # << >>
     THEN \E out \in StoreOutcomes :
            LET r == QueryCollections(out) IN
            /\ sources' = r.sources
            /\ calls' = Append(calls, Call("query_collection", out.raises, current_query))
            /\ pc' = IF r.raised THEN "raised" ELSE "rerank"
     ELSE /\ sources' = << >>
          /\ calls' = calls
          /\ pc' = "rerank"
  /\ UNCHANGED <<config, current_query, iteration, best_answer, best_sources, mcp_defined,
                 mcp_results, analysis, context, answer, validation, result, acceptedAt,
                 everProduced>>
  /\ UNCHANGED <<rerankVars, callVars, pairVars, faissVars>>

\* Lines 536-563; the configuration flag only selects which query is called
Retrieve ==
  /\ pc = "retrieve"
  /\ IF analysis.needs_additional_data /\ collection_names # << >>
     THEN \E out \in StoreOutcomes :
            LET r == QueryCollections(out) IN
            /\ sources' = r.sources
            /\ calls' = Append(calls, Call("query_collection", out.raises, current_query))
            /\ pc' = IF r.raised THEN "raised" ELSE "rerank"
     ELSE /\ sources' = << >>
          /\ calls' = calls
          /\ pc' = "rerank"
  /\ UNCHANGED <<config, current_query, iteration, best_answer, best_sources, mcp_defined,
                 mcp_results, analysis, context, answer, validation, result, acceptedAt,
                 everProduced>>
  /\ UNCHANGED <<rerankVars, callVars, pairVars, faissVars>>

\* Step 3, lines 565-567
Rerank ==
  /\ pc = "rerank"
  /\ IF sources # << >> /\ has_reranking_function
     THEN \E scorer \in ScorerOutcomes :
            /\ sources' = rerank_search_results(sources, has_reranking_function, scorer)
            /\ calls' = Append(calls, Call("rerank_search_results", scorer.raises,
                                           current_query))
     ELSE UNCHANGED <<sources, calls>>
  /\ pc' = "generate"
  /\ UNCHANGED <<config, current_query, iteration, best_answer, best_sources, mcp_defined,
                 mcp_results, analysis, context, answer, validation, result, acceptedAt,
                 everProduced>>
  /\ UNCHANGED <<rerankVars, callVars, pairVars, faissVars>>

\* Lines 569-577: the passages joined into the context
RECURSIVE ContextParts(_)
ContextParts(srcs) ==
  IF srcs = << >> THEN << >>
  ELSE (IF HasDocument(Head(srcs)) THEN Slice(Head(srcs)["document"], 0, 2) ELSE << >>)
       \o ContextParts(Tail(srcs))

\* "\n\n".join(parts)
RECURSIVE Join(_)
Join(parts) ==
  IF parts = << >> THEN << >>
  ELSE IF Len(parts) = 1 THEN parts
       ELSE <<Head(parts), "\n\n">> \o Join(Tail(parts))

\* join raises TypeError on a passage that is not a str
JoinRaises(parts) == InSeq(NonePassage, parts)

\* The attempt ended after Step 4, its answer not validated
GenerateUnvalidated ==
  /\ pc = "generate"
  /\ LET parts == ContextParts(Slice(sources, 0, k_reranker)) IN
     IF sources # << >> /\ JoinRaises(parts)
     THEN /\ pc' = "raised"
          /\ UNCHANGED <<context, answer, calls, everProduced>>
     ELSE /\ context' = IF sources # << >> THEN Join(parts) ELSE << >>
          /\ \E resp \in GenerateResponses :
               /\ answer' = generate_answer(current_query, context', mcp_results, resp)
               /\ calls' = Append(calls, CallWithQuery("generate_answer",
                                                       ChoiceContent(resp).raised,
                                                       context', current_query))
               /\ everProduced' = (everProduced \/ answer' # << >>)
          /\ pc' = "loop"
  /\ UNCHANGED <<config, current_query, iteration, best_answer, best_sources, mcp_defined,
                 mcp_results, sources, analysis, validation, result, acceptedAt>>
  /\ UNCHANGED <<rerankVars, callVars, pairVars, faissVars>>

\* Lines 569-585: context assembly, not inside any try, then Step 4
Generate ==
  /\ pc = "generate"
  /\ LET parts == ContextParts(Slice(sources, 0, k_reranker)) IN
     IF sources # << >> /\ JoinRaises(parts)
     THEN /\ pc' = "raised"
          /\ UNCHANGED <<context, answer, calls, everProduced>>
     ELSE /\ context' = IF sources # << >> THEN Join(parts) ELSE << >>
          /\ \E resp \in GenerateResponses :
               /\ answer' = generate_answer(current_query, context', mcp_results, resp)
               /\ calls' = Append(calls, CallWithQuery("generate_answer",
                                                       ChoiceContent(resp).raised,
                                                       context', current_query))
               /\ everProduced' = (everProduced \/ answer' # << >>)
          /\ pc' = "validate"
  /\ UNCHANGED <<config, current_query, iteration, best_answer, best_sources, mcp_defined,
                 mcp_results, sources, analysis, validation, result, acceptedAt>>
  /\ UNCHANGED <<rerankVars, callVars, pairVars, faissVars>>

\* The loop without its break: a valid answer is kept and the loop goes on
DecideNoBreak(v, it, max) == IF it < max THEN "rewrite" ELSE "exhausted"

\* The rewrite asked for after every invalid answer, the last attempt's too
DecideRewriteAlways(v, it, max) == IF v.is_valid THEN "accept" ELSE "rewrite"

\* Lines 592-610: what follows a validation
Decide(v, it, max) ==
  IF v.is_valid THEN "accept"
  ELSE IF it < max THEN "rewrite" ELSE "exhausted"

\* Step 5 and lines 592-610 up to the rewrite's await
Validate ==
  /\ pc = "validate"
  /\ \E resp \in ValidateResponses :
       LET v == validate_answer(current_query, answer, resp) IN
       /\ validation' = v
       /\ calls' = Append(calls, Call("validate_answer", ChoiceContent(resp).raised,
                                      current_query))
       /\ acceptedAt' = IF v.is_valid /\ acceptedAt = 0 THEN iteration ELSE acceptedAt
       /\ LET d == Decide(v, iteration, max_iterations) IN
          /\ best_answer' = IF d = "rewrite" THEN best_answer ELSE answer
          /\ best_sources' = IF d = "rewrite" THEN best_sources ELSE sources
          /\ pc' = CASE d = "accept" -> "return"
                      [] d = "rewrite" -> "rewrite"
                      [] OTHER -> "loop"
  /\ UNCHANGED <<config, current_query, iteration, mcp_defined, mcp_results, sources,
                 analysis, context, answer, result, everProduced>>
  /\ UNCHANGED <<rerankVars, callVars, pairVars, faissVars>>

\* Lines 599-606
Rewrite ==
  /\ pc = "rewrite"
  /\ \E resp \in RewriteResponses :
       /\ current_query' = rewrite_query(query, answer, validation, resp)
       /\ calls' = Append(calls, CallRet("rewrite_query", ChoiceContent(resp).raised,
                                         <<query, answer, validation.reasoning>>,
                                         current_query'))
  /\ pc' = "loop"
  /\ UNCHANGED <<config, iteration, best_answer, best_sources, mcp_defined, mcp_results,
                 sources, analysis, context, answer, validation, result, acceptedAt,
                 everProduced>>
  /\ UNCHANGED <<rerankVars, callVars, pairVars, faissVars>>

\* best_answer or "Unable to generate a satisfactory answer."
FinalAnswer(best) == Or(best, FallbackAnswer)

\* Lines 612-619
Return ==
  /\ pc = "return"
  /\ result' = [answer |-> FinalAnswer(best_answer),
                sources |-> best_sources,
                mcp_results |-> IF mcp_defined THEN mcp_results ELSE << >>,
                iterations |-> iteration,
                final_query |-> current_query]
  /\ pc' = "done"
  /\ UNCHANGED <<config, current_query, iteration, best_answer, best_sources, mcp_defined,
                 mcp_results, sources, analysis, context, answer, validation, calls,
                 acceptedAt, everProduced>>
  /\ UNCHANGED <<rerankVars, callVars, pairVars, faissVars>>

Next ==
  \/ LoopTest
  \/ Analyze
  \/ Mcp
  \/ Retrieve
  \/ Rerank
  \/ Generate
  \/ Validate
  \/ Rewrite
  \/ Return

Spec == Init /\ [][Next]_vars

\* process() awaits one collaborator at a time; every call it awaits returns
\* or raises, and the event loop then resumes it
SpecLive == Spec /\ WF_vars(Next)

\* ------------------------------------- rerank_search_results called alone
PassageNames == <<"a", "b", "c", "d">>

MetaNames == <<"m1", "m2", "m3", "m4">>

\* The sources a store may hand over, told apart by an "id" key the
\* reranker never reads: passages with their metadata, without a metadata
\* key, with a metadata list one short, twice the same passage, and a source
\* without a "document" key.
SourceShapes(id) ==
  {[id |-> id, document |-> SubSeq(PassageNames, 1, n),
    metadata |-> SubSeq(MetaNames, 1, n)] : n \in 0..MaxPassages}
  \cup {[id |-> id, document |-> SubSeq(PassageNames, 1, n)] : n \in 0..MaxPassages}
  \cup {[id |-> id, document |-> SubSeq(PassageNames, 1, n),
         metadata |-> SubSeq(MetaNames, 1, n - 1)] : n \in 1..MaxPassages}
  \cup {[id |-> id, document |-> <<"a", "a">>, metadata |-> <<"m1", "m2">>],
        [id |-> id, metadata |-> <<"m1">>]}

RerankInputs ==
  {<< >>} \cup {<<s>> : s \in SourceShapes(1)}
  \cup {<<s, t>> : s \in SourceShapes(1), t \in SourceShapes(2)}

\* Whether line 283 is reached
ScorerCalled(search_results, has_function) ==
  has_function /\ search_results # << >> /\ Sentences(search_results) # << >>

\* The scorer raises, or returns at most one score per pair sent
ScorerOutcomesFor(search_results) ==
  {[raises |-> TRUE, scores |-> << >>]}
  \cup UNION {{[raises |-> FALSE, scores |-> sc] : sc \in [1..n -> 0..MaxScore]} :
                n \in 0..Len(Sentences(search_results))}

InitRerank ==
  /\ ProcessIdle
  /\ CallIdle
  /\ PairIdle
  /\ FaissIdle
  /\ rr_pc = "in"
  /\ rr_function \in BOOLEAN
  /\ rr_input \in RerankInputs
  /\ rr_scorer = NoScorer
  /\ rr_output = << >>

RerankCall ==
  /\ rr_pc = "in"
  /\ \E scorer \in IF ScorerCalled(rr_input, rr_function)
                   THEN ScorerOutcomesFor(rr_input) ELSE {NoScorer} :
       /\ rr_scorer' = scorer
       /\ rr_output' = rerank_search_results(rr_input, rr_function, scorer)
  /\ rr_pc' = "out"
  /\ UNCHANGED <<rr_function, rr_input>>
  /\ UNCHANGED <<procVars, callVars, pairVars, faissVars>>

NextRerank == RerankCall

SpecRerank == InitRerank /\ [][NextRerank]_vars

\* ------------------------------------------------- one stage called alone
\* The texts a gateway may answer an analysis with: up to MaxTextLen tokens
AnalyzeAlphabet == {"{", "}", "oaX", "oaNo", "Yes", "required", "data"}

TextsOver(alphabet) == UNION {[1..n -> alphabet] : n \in 0..MaxTextLen}

AnalyzeCallResponses ==
  {Raise(e) : e \in Errors} \cup {NoChoicesKey, EmptyChoices}
  \cup {Content(t) : t \in TextsOver(AnalyzeAlphabet)}

PlanCallResponses ==
  PlanResponses \cup {EmptyChoices, Content(<<"{", "opT1", "}">>),
                      Content(<<"Use", "{", "opT1", "}">>),
                      Content(<<"{", "opList", "}">>)}

\* The planning call is not made
NotAsked == [kind |-> "unasked", err |-> "", content |-> << >>]

ProviderSets == {<< >>, <<"p1">>, <<"p1", "p2">>}

InitCalls ==
  /\ ProcessIdle
  /\ RerankIdle
  /\ PairIdle
  /\ FaissIdle
  /\ call_pc = "in"
  /\ \/ /\ call_op = "analyze_query"
        /\ call_args = [query |-> <<"q">>]
     \/ /\ call_op = "interact_with_mcp_servers"
        /\ call_args \in {[query |-> <<"q">>, mcp_clients |-> c] : c \in ProviderSets}
     \/ /\ call_op = "generate_answer"
        /\ call_args \in {[query |-> <<"q">>, context |-> c, mcp_results |-> << >>] :
                            c \in {<< >>, <<"a", "\n\n", "b">>}}
     \/ /\ call_op = "validate_answer"
        /\ call_args \in {[query |-> <<"q">>, answer |-> a] : a \in {<< >>, <<"a1">>}}
     \/ /\ call_op = "rewrite_query"
        /\ call_args = [original_query |-> <<"q">>, answer |-> <<"a1">>,
                        validation_result |->
                          AnswerValidationResult(FALSE, TRUE, <<"r">>, 9)]
  /\ call_resp = << >>
  /\ call_out = << >>

AnalyzeCall ==
  /\ call_pc = "in"
  /\ call_op = "analyze_query"
  /\ \E resp \in AnalyzeCallResponses :
       /\ call_resp' = resp
       /\ call_out' = analyze_query(call_args.query, resp)
  /\ call_pc' = "out"
  /\ UNCHANGED <<call_op, call_args>>
  /\ UNCHANGED <<procVars, rerankVars, pairVars, faissVars>>

ToolsCall ==
  /\ call_pc = "in"
  /\ call_op = "interact_with_mcp_servers"
  /\ LET clients == call_args.mcp_clients
         ids == {clients[i] : i \in 1..Len(clients)}
     IN \E listing \in [ids -> Listings], callRaises \in CallOutcomes :
          \E planResp \in IF AvailableTools(clients, listing) # << >>
                           THEN PlanCallResponses ELSE {NotAsked} :
            /\ call_resp' = [listing |-> listing, plan |-> planResp,
                             callRaises |-> callRaises]
            /\ call_out' = interact_with_mcp_servers(call_args.query, clients, listing,
                                                     planResp, callRaises)
  /\ call_pc' = "out"
  /\ UNCHANGED <<call_op, call_args>>
  /\ UNCHANGED <<procVars, rerankVars, pairVars, faissVars>>

\* What the gateway may answer a generation, a validation or a rewrite with
GenerateCallResponses ==
  {Raise(e) : e \in Errors}
  \cup {NoChoicesKey, EmptyChoices, Content(<< >>), Content(<<"a1">>)}

ValidateCallResponses ==
  ValidateResponses \cup {NoChoicesKey, Content(<< >>), Content(<<"nothing">>),
                          Content(<<"fine">>)}

RewriteCallResponses ==
  RewriteResponses \cup {NoChoicesKey, EmptyChoices, Content(<< >>),
                         Content(<<" ", "qr", " ">>)}

GenerateCall ==
  /\ call_pc = "in"
  /\ call_op = "generate_answer"
  /\ \E resp \in GenerateCallResponses :
       /\ call_resp' = resp
       /\ call_out' = generate_answer(call_args.query, call_args.context,
                                      call_args.mcp_results, resp)
  /\ call_pc' = "out"
  /\ UNCHANGED <<call_op, call_args>>
  /\ UNCHANGED <<procVars, rerankVars, pairVars, faissVars>>

ValidateCall ==
  /\ call_pc = "in"
  /\ call_op = "validate_answer"
  /\ \E resp \in ValidateCallResponses :
       /\ call_resp' = resp
       /\ call_out' = validate_answer(call_args.query, call_args.answer, resp)
  /\ call_pc' = "out"
  /\ UNCHANGED <<call_op, call_args>>
  /\ UNCHANGED <<procVars, rerankVars, pairVars, faissVars>>

RewriteCall ==
  /\ call_pc = "in"
  /\ call_op = "rewrite_query"
  /\ \E resp \in RewriteCallResponses :
       /\ call_resp' = resp
       /\ call_out' = rewrite_query(call_args.original_query, call_args.answer,
                                    call_args.validation_result, resp)
  /\ call_pc' = "out"
  /\ UNCHANGED <<call_op, call_args>>
  /\ UNCHANGED <<procVars, rerankVars, pairVars, faissVars>>

NextCalls ==
  \/ AnalyzeCall
  \/ ToolsCall
  \/ GenerateCall
  \/ ValidateCall
  \/ RewriteCall

SpecCalls == InitCalls /\ [][NextCalls]_vars

\* ---------------------------------------- two process() calls interleaved
\* Two calls of process() on one engine, for different queries, each resumed
\* by the event loop one stage at a time.  The engine's fields are the
\* configuration variables above; a call's locals are its frame.
Invocations == {1, 2}

PairQuery(i) == IF i = 1 THEN <<"q1">> ELSE <<"q2">>

PairMaxIterations == {1, 2}

\* The locals of process(query, ...) as it is entered
EntryFrame(q) ==
  [pc |-> "loop", query |-> q, current_query |-> q, iteration |-> 0,
   best_answer |-> None, best_sources |-> << >>, mcp_defined |-> FALSE,
   mcp_results |-> << >>, sources |-> << >>,
   analysis |-> QueryAnalysisResult(FALSE, Unbound, Unbound, 0),
   context |-> Unbound, answer |-> Unbound,
   validation |-> AnswerValidationResult(FALSE, FALSE, Unbound, 0),
   result |-> NoResult]

\* No collaborator is called in the step
Nothing == [kind |-> "none"]

PairAnalyzeResponses == {Content(<<"{", "oaYes", "}">>), Content(<<"{", "oaNo", "}">>)}

PairToolOutcomes ==
  {[listing |-> [raises |-> FALSE, tools |-> <<"t1", "t2">>],
    plan |-> Content(<<"{", "opT1", "}">>), callRaises |-> <<FALSE, FALSE>>]}

PairStoreOutcomes == {[raises |-> FALSE, sources |-> <<SourceA, SourceB>>]}

PairScorerOutcomes ==
  {[raises |-> FALSE, scores |-> <<1, 9, 5>>], [raises |-> FALSE, scores |-> <<9, 1, 5>>]}

PairGenerateResponses == {Raise(e) : e \in Errors} \cup {Content(<<"a1">>)}

PairValidateResponses == {Content(<<"{", "ovOk", "}">>), Content(<<"{", "ovWrong", "}">>)}

PairRewriteResponses == {Content(<<"qr">>)}

NeedsTools(l) == l.analysis.needs_additional_data /\ mcp_clients # << >>

NeedsStore(l) == l.analysis.needs_additional_data /\ collection_names # << >>

NeedsRerank(l) == l.sources # << >> /\ has_reranking_function

\* What the collaborator called in the next stage of a frame may answer
StepResponses(l) ==
  CASE l.pc = "analyze" -> PairAnalyzeResponses
    [] l.pc = "mcp" -> IF NeedsTools(l) THEN PairToolOutcomes ELSE {Nothing}
    [] l.pc = "retrieve" -> IF NeedsStore(l) THEN PairStoreOutcomes ELSE {Nothing}
    [] l.pc = "rerank" -> IF NeedsRerank(l) THEN PairScorerOutcomes ELSE {Nothing}
    [] l.pc = "generate" -> PairGenerateResponses
    [] l.pc = "validate" -> PairValidateResponses
    [] l.pc = "rewrite" -> PairRewriteResponses
    [] OTHER -> {Nothing}

\* Lines 516-619 on a frame: the stage the frame stands at, run with the
\* collaborator's answer r
ProcessStep(l, r) ==
  CASE l.pc = "loop" ->
         IF LoopCondition(l.iteration, max_iterations)
         THEN [l EXCEPT !.iteration = @ + 1, !.pc = "analyze"]
         ELSE [l EXCEPT !.pc = "return"]
    [] l.pc = "analyze" ->
         LET a == analyze_query(l.current_query, r)
         IN [l EXCEPT !.analysis = a, !.current_query = AdoptRewritten(a, @),
                      !.pc = "mcp"]
    [] l.pc = "mcp" ->
         [l EXCEPT !.mcp_defined = TRUE,
                   !.mcp_results =
                     IF NeedsTools(l)
                     THEN interact_with_mcp_servers(l.current_query, mcp_clients,
                                                    [p \in {"p1"} |-> r.listing], r.plan,
                                                    r.callRaises).results
                     ELSE << >>,
                   !.pc = "retrieve"]
    [] l.pc = "retrieve" ->
         [l EXCEPT !.sources = IF NeedsStore(l) THEN QueryCollections(r).sources ELSE << >>,
                   !.pc = "rerank"]
    [] l.pc = "rerank" ->
         [l EXCEPT !.sources = IF NeedsRerank(l)
                               THEN rerank_search_results(@, has_reranking_function, r)
                               ELSE @,
                   !.pc = "generate"]
    [] l.pc = "generate" ->
         LET parts == ContextParts(Slice(l.sources, 0, k_reranker))
             ctx == IF l.sources # << >> THEN Join(parts) ELSE << >>
         IN IF l.sources # << >> /\ JoinRaises(parts)
            THEN [l EXCEPT !.pc = "raised"]
            ELSE [l EXCEPT !.context = ctx,
                           !.answer = generate_answer(l.current_query, ctx,
                                                      l.mcp_results, r),
                           !.pc = "validate"]
    [] l.pc = "validate" ->
         LET v == validate_answer(l.current_query, l.answer, r)
             d == Decide(v, l.iteration, max_iterations)
         IN [l EXCEPT !.validation = v,
                      !.best_answer = IF d = "rewrite" THEN @ ELSE l.answer,
                      !.best_sources = IF d = "rewrite" THEN @ ELSE l.sources,
                      !.pc = CASE d = "accept" -> "return"
                               [] d = "rewrite" -> "rewrite"
                               [] OTHER -> "loop"]
    [] l.pc = "rewrite" ->
         [l EXCEPT !.current_query = rewrite_query(l.query, l.answer, l.validation, r),
                   !.pc = "loop"]
    [] l.pc = "return" ->
         [l EXCEPT !.result = [answer |-> FinalAnswer(l.best_answer),
                               sources |-> l.best_sources,
                               mcp_results |-> IF l.mcp_defined THEN l.mcp_results
                                               ELSE << >>,
                               iterations |-> l.iteration,
                               final_query |-> l.current_query],
                   !.pc = "done"]
    [] OTHER -> l

\* The locals kept in one place for every call, as fields of the engine
\* would be
SharedFrame(frames, i) == frames[1]

\* The frame a call of process() works on: its own
Frame(frames, i) == frames[i]

InitPair ==
  /\ RerankIdle
  /\ CallIdle
  /\ FaissIdle
  /\ max_iterations \in PairMaxIterations
  /\ has_reranking_function = TRUE
  /\ mcp_clients = <<"p1">>
  /\ query = << >>
  /\ collection_names = <<"c1">>
  /\ k_reranker = DefaultKReranker
  /\ pc = "idle"
  /\ ProcessEntry
  /\ inv = [i \in Invocations |-> EntryFrame(PairQuery(i))]
  /\ alone = [i \in Invocations |-> EntryFrame(PairQuery(i))]

\* The event loop resumes call i, which runs its next stage
Resume(i) ==
  /\ Frame(inv, i).pc \notin {"done", "raised"}
  /\ \E r \in StepResponses(Frame(inv, i)) :
       /\ inv' = [inv EXCEPT ![i] = ProcessStep(Frame(inv, i), r)]
       /\ alone' = [alone EXCEPT ![i] = ProcessStep(alone[i], r)]
  /\ UNCHANGED <<procVars, rerankVars, callVars, faissVars>>

NextPair == \E i \in Invocations : Resume(i)

SpecPair == InitPair /\ [][NextPair]_vars

\* ============================================ FaissClient (vector/dbs/faiss.py)
\* One client on a data directory of its own: the index file of a collection
\* exists exactly when the collection is in self.indices, so has_collection()
\* is the membership test and _load_index() finds nothing when the index is
\* not in memory.  A vector is a tuple of numbers; an index is the sequence
\* of the vectors added to it, in the order of add(); a document store is a
\* dict in insertion order, a sequence of entries [id, vector] (text and
\* metadata travel with the entry).  Positions count from 1 where Python's
\* count from 0.

\* d[k] = v
SetItem(d, k, v) == [x \in DOMAIN d \cup {k} |-> IF x = k THEN v ELSE d[x]]

\* search(..., limit=10)
DefaultLimit == 10

\* item.get('vector') is not None
HasVector(item) == "vector" \in DOMAIN item

\* doc_id in self.doc_stores[collection_name]
HasId(doc_store, id) == \E i \in 1..Len(doc_store) : doc_store[i].id = id

\* self.doc_stores[collection_name][item_id] = {...}: an id already stored
\* keeps its place and takes the new value, a new id goes to the end
StoreItem(doc_store, item) ==
  IF HasId(doc_store, item.id)
    THEN [i \in 1..Len(doc_store) |->
            IF doc_store[i].id = item.id THEN item ELSE doc_store[i]]
    ELSE Append(doc_store, item)

\* vectors: the vector of every item that has one, in the order of items
RECURSIVE AddedVectors(_)
AddedVectors(items) ==
  IF items = << >> THEN << >>
  ELSE IF HasVector(Head(items))
    THEN <<Head(items).vector>> \o AddedVectors(Tail(items))
    ELSE AddedVectors(Tail(items))

\* The document store after the loop over items
RECURSIVE StoredItems(_, _)
StoredItems(doc_store, items) ==
  IF items = << >> THEN doc_store
  ELSE IF HasVector(Head(items))
    THEN StoredItems(StoreItem(doc_store, Head(items)), Tail(items))
    ELSE StoredItems(doc_store, Tail(items))

\* insert(collection_name, items).  A new index is empty; an untrained one
\* given fewer than 100 vectors is replaced by an empty flat index, which
\* only happens to the index just created.
insert(indices, doc_stores, collection_name, items) ==
  LET stores == IF collection_name \in DOMAIN doc_stores THEN doc_stores
                ELSE SetItem(doc_stores, collection_name, << >>)
      created == IF collection_name \in DOMAIN indices THEN indices
                 ELSE SetItem(indices, collection_name, << >>)
  IN IF items = << >>
       THEN [indices |-> indices, doc_stores |-> doc_stores, raised |-> FALSE]
     ELSE IF collection_name \notin DOMAIN indices /\ ~HasVector(items[1])
       THEN [indices |-> indices, doc_stores |-> stores, raised |-> TRUE]
     ELSE IF AddedVectors(items) = << >>
       THEN [indices |-> created,
             doc_stores |-> SetItem(stores, collection_name,
                              StoredItems(stores[collection_name], items)),
             raised |-> FALSE]
     ELSE [indices |-> SetItem(created, collection_name,
                         created[collection_name] \o AddedVectors(items)),
           doc_stores |-> SetItem(stores, collection_name,
                            StoredItems(stores[collection_name], items)),
           raised |-> FALSE]

\* del self.doc_stores[collection_name][doc_id] for each id stored
RemoveIds(doc_store, ids) ==
  SelectSeq(doc_store, LAMBDA e : ~InSeq(e.id, ids))

\* vectors = [doc['vector'] for doc in doc_store.values()]
StoreVectors(doc_store) == [i \in 1..Len(doc_store) |-> doc_store[i].vector]

\* delete(collection_name, ids): the index is rebuilt from the store that
\* is left, if there is an index and the store is not empty
delete(indices, doc_stores, collection_name, ids) ==
  IF collection_name \notin DOMAIN doc_stores
    THEN [indices |-> indices, doc_stores |-> doc_stores, raised |-> FALSE]
  ELSE LET left == RemoveIds(doc_stores[collection_name], ids)
       IN [indices |-> IF collection_name \in DOMAIN indices /\ left # << >>
                         THEN SetItem(indices, collection_name, StoreVectors(left))
                         ELSE indices,
           doc_stores |-> SetItem(doc_stores, collection_name, left),
           raised |-> FALSE]

\* The squared L2 distance of two vectors of one dimension
Distance(u, v) == (u[1] - v[1]) * (u[1] - v[1])

\* index.search(query_np, k): the positions nearest to the query, nearest
\* first and the earlier of two at one distance first
RECURSIVE NearestInsert(_, _, _, _)
NearestInsert(p, ps, index, q) ==
  IF ps = << >> THEN <<p>>
  ELSE IF Distance(index[Head(ps)], q) <= Distance(index[p], q)
    THEN <<Head(ps)>> \o NearestInsert(p, Tail(ps), index, q)
    ELSE <<p>> \o ps

RECURSIVE Nearest(_, _, _)
Nearest(n, index, q) ==
  IF n = 0 THEN << >>
  ELSE NearestInsert(n, Nearest(n - 1, index, q), index, q)

\* search(collection_name, query_vector, limit): for each position the
\* index returns that the store has too, the entry at that position of
\* list(doc_store.items()); hit is the index vector that matched.  An index
\* in memory is never empty, so k is min(limit, ntotal).
search(indices, doc_stores, collection_name, query_vector, limit) ==
  IF collection_name \notin DOMAIN indices THEN << >>
  ELSE LET index == indices[collection_name]
           doc_list == Get(doc_stores, collection_name, << >>)
           k == Min(limit, Len(index))
           found == SubSeq(Nearest(Len(index), index, query_vector), 1, k)
           kept == SelectSeq(found, LAMBDA idx : idx <= Len(doc_list))
       IN [j \in 1..Len(kept) |->
             [id |-> doc_list[kept[j]].id,
              vector |-> doc_list[kept[j]].vector,
              distance |-> Distance(index[kept[j]], query_vector),
              hit |-> index[kept[j]]]]

FaissCollections == {"c1"}

FaissIds == {"a", "b"}

FaissVectors == {<<0>>, <<1>>}

FaissItems == [id : FaissIds, vector : FaissVectors] \cup [id : FaissIds]

FaissItemLists ==
  {<< >>} \cup {<<x>> : x \in FaissItems}
          \cup {<<x, y>> : x \in FaissItems, y \in FaissItems}

FaissIdLists ==
  {<< >>} \cup {<<x>> : x \in FaissIds} \cup {<<"a", "b">>}

InitFaiss ==
  /\ ProcessIdle
  /\ RerankIdle
  /\ CallIdle
  /\ PairIdle
  /\ fa_pc = 0
  /\ fa_indices = EmptyDict
  /\ fa_doc_stores = EmptyDict
  /\ fa_raised = FALSE
  /\ fa_found = << >>

FaissInsert ==
  /\ fa_pc \in 0..(MaxFaissCalls - 1)
  /\ \E c \in FaissCollections, items \in FaissItemLists :
       LET r == insert(fa_indices, fa_doc_stores, c, items)
       IN /\ fa_indices' = r.indices
          /\ fa_doc_stores' = r.doc_stores
          /\ fa_raised' = r.raised
  /\ fa_pc' = fa_pc + 1
  /\ UNCHANGED <<fa_found, procVars, rerankVars, callVars, pairVars>>

FaissDelete ==
  /\ fa_pc \in 0..(MaxFaissCalls - 1)
  /\ \E c \in FaissCollections, ids \in FaissIdLists :
       LET r == delete(fa_indices, fa_doc_stores, c, ids)
       IN /\ fa_indices' = r.indices
          /\ fa_doc_stores' = r.doc_stores
          /\ fa_raised' = r.raised
  /\ fa_pc' = fa_pc + 1
  /\ UNCHANGED <<fa_found, procVars, rerankVars, callVars, pairVars>>

FaissSearch ==
  /\ fa_pc \in 0..(MaxFaissCalls - 1)
  /\ \E c \in FaissCollections, q \in FaissVectors :
       fa_found' = search(fa_indices, fa_doc_stores, c, q, DefaultLimit)
  /\ fa_raised' = FALSE
  /\ fa_pc' = fa_pc + 1
  /\ UNCHANGED <<fa_indices, fa_doc_stores, procVars, rerankVars, callVars,
                 pairVars>>

NextFaiss == FaissInsert \/ FaissDelete \/ FaissSearch

SpecFaiss == InitFaiss /\ [][NextFaiss]_vars

\* ================================================================ claims
HasCall(op) == \E i \in 1..Len(calls) : calls[i].op = op

Faulted(op) == \E i \in 1..Len(calls) : calls[i].op = op /\ calls[i].raised

LastCall == calls[Len(calls)]

Returned == pc = "done"

\* The attempt has passed the stage
PastGather == pc \in {"rerank", "generate", "validate", "rewrite", "loop", "return", "done"}

PastGenerate == pc \in {"validate", "rewrite", "loop", "return", "done"}

PastValidate == pc \in {"rewrite", "loop", "return", "done"}

C2_AcceptStops ==
  acceptedAt # 0 =>
    /\ pc \in {"return", "done"}
    /\ iteration = acceptedAt
    /\ LastCall.op = "validate_answer"
    /\ Returned => result.iterations = acceptedAt

C2_Witness ==
  Returned /\ acceptedAt = 1 /\ max_iterations >= 2 /\ result.iterations = 1

\* C3: when no attempt's validation was valid, the returned answer is the
\* text generate_answer returned in the last attempt, never the placeholder,
\* and iterations = max_iterations.
C3_LastAnswerReturned ==
  (Returned /\ max_iterations >= 1 /\ acceptedAt = 0) =>
    /\ result.answer = answer
    /\ result.answer # FallbackAnswer
    /\ result.iterations = max_iterations

\* C4: no fault propagates out of process(): it never ends by raising.
C4_NeverRaises == pc # "raised"

\* C5: the fallback string is the returned answer only if no attempt of the
\* run produced answer text.
C5_FallbackOnlyIfNoAnswer ==
  (Returned /\ result.answer = FallbackAnswer) => ~everProduced

\* C6: answer, sources and tool results of the result are those of the
\* terminal attempt.
C6_ResultFromTerminalAttempt ==
  (Returned /\ iteration >= 1) =>
    /\ result.answer = answer
    /\ result.sources = sources
    /\ result.mcp_results = mcp_results

\* C7: when the document-store query faulted in an attempt, the attempt goes
\* on with no sources: generate_answer is called with the empty context and
\* validate_answer is called, in that attempt, and nothing is raised.
C7_StoreFaultContinues ==
  Faulted("query_collection") =>
    /\ pc # "raised"
    /\ sources = << >>
    /\ ~HasCall("rerank_search_results")
    /\ PastGenerate =>
         \E i \in 1..Len(calls) :
           calls[i].op = "generate_answer" /\ calls[i].arg = << >>
    /\ PastValidate => HasCall("validate_answer")

C7_Witness ==
  Returned /\ Faulted("query_collection") /\ HasCall("validate_answer")

\* C8: when validate_answer hit its fault path in attempt n, it returned
\* is_correct = is_relevant = true with confidence 0.5 and process() accepted
\* there: no rewrite, no further attempt, iterations = n and that attempt's
\* answer in the result.
C8_ValidatorFaultAccepts ==
  Faulted("validate_answer") =>
    /\ validation.is_correct /\ validation.is_relevant /\ validation.confidence = 5
    /\ acceptedAt = iteration
    /\ LastCall.op = "validate_answer"
    /\ pc \in {"return", "done"}
    /\ Returned => result.iterations = iteration /\ result.answer = answer

\* C9: when analyze_query hit its fault path in an attempt, its result is
\* needs_additional_data = true, confidence 0.5, the error text as reasoning
\* and the query it was given as rewritten_query, and the gather stage of the
\* attempt is run: the tool orchestrator when providers are registered, the
\* store query when collections were named.
C9_AnalyzerFailsOpen ==
  Faulted("analyze_query") =>
    /\ analysis.needs_additional_data
    /\ analysis.confidence = 5
    /\ \E e \in Errors \cup {"IndexError"} :
         analysis.reasoning = <<"Error during analysis: ", e>>
    /\ analysis.rewritten_query = calls[1].arg
    /\ ((pc = "retrieve" \/ PastGather) /\ mcp_clients # << >>)
         => HasCall("interact_with_mcp_servers")
    /\ (PastGather /\ collection_names # << >>) => HasCall("query_collection")

C9_Witness ==
  /\ Faulted("analyze_query")
  /\ HasCall("interact_with_mcp_servers")
  /\ HasCall("query_collection")
  /\ PastValidate

\* The attempt has passed the tool step
PastTools == pc = "retrieve" \/ PastGather

\* C17: in an attempt the tool orchestrator is run exactly when the analysis
\* asks for additional data and a provider is registered, the store is
\* queried exactly when the analysis asks for additional data and a
\* collection was named; when no additional data is asked for, neither runs
\* and generate_answer is called with the empty context and no tool result.
C17_GatherGuards ==
  /\ PastTools =>
       (HasCall("interact_with_mcp_servers")
          <=> (analysis.needs_additional_data /\ mcp_clients # << >>))
  /\ PastGather =>
       (HasCall("query_collection")
          <=> (analysis.needs_additional_data /\ collection_names # << >>))
  /\ pc \in {"analyze", "mcp"} =>
       ~HasCall("interact_with_mcp_servers") /\ ~HasCall("query_collection")
  /\ (PastGenerate /\ iteration >= 1 /\ ~analysis.needs_additional_data) =>
       /\ \E i \in 1..Len(calls) :
            calls[i].op = "generate_answer" /\ calls[i].arg = << >>
       /\ mcp_results = << >>
       /\ sources = << >>

C17_Witness ==
  /\ Returned
  /\ ~analysis.needs_additional_data
  /\ mcp_clients # << >> /\ collection_names # << >>
  /\ HasCall("generate_answer")
  /\ ~HasCall("interact_with_mcp_servers") /\ ~HasCall("query_collection")

\* An attempt has ended without a valid answer
AttemptRejected ==
  pc \in {"loop", "return", "done"} /\ iteration >= 1 /\ acceptedAt = 0

\* C18: after an attempt whose validation is not valid, rewrite_query is
\* called exactly when the attempt number is below max_iterations, with the
\* caller's original query, that attempt's answer and that validation's
\* reasoning; what it returns is the working query the next attempt starts
\* with; it is never called after the terminal attempt.
C18_RewriteBetweenAttempts ==
  /\ [](AttemptRejected => (HasCall("rewrite_query") <=> iteration < max_iterations))
  /\ [](HasCall("rewrite_query") =>
          /\ pc = "loop"
          /\ ~validation.is_valid
          /\ LastCall.op = "rewrite_query"
          /\ LastCall.arg = <<query, answer, validation.reasoning>>
          /\ current_query = LastCall.ret)
  /\ [][(HasCall("rewrite_query") /\ iteration' = iteration + 1) =>
          /\ current_query' = LastCall.ret
          /\ pc' = "analyze"]_vars
  /\ [][(pc = "analyze" /\ pc' = "mcp") => calls'[1].arg = current_query]_vars

C18_Witness ==
  /\ pc = "mcp"
  /\ iteration = 2
  /\ query = <<"q">>
  /\ calls[1].op = "analyze_query"
  /\ calls[1].arg = <<"qr">>

\* The place of a call in an attempt
StageRank(op) ==
  CASE op = "analyze_query" -> 1
    [] op = "interact_with_mcp_servers" -> 2
    [] op = "tool_planning" -> 3
    [] op = "query_collection" -> 4
    [] op = "rerank_search_results" -> 5
    [] op = "generate_answer" -> 6
    [] op = "validate_answer" -> 7
    [] OTHER -> 8

\* C19: in every attempt the calls are made in the order analysis, tools,
\* retrieval, rerank, generation, validation, so tools and retrieval are over
\* before the rerank; and an attempt starts only after the validation of
\* the attempt before it.
C19_StagesInOrder ==
  /\ [](/\ \A i, j \in 1..Len(calls) :
             i < j => StageRank(calls[i].op) < StageRank(calls[j].op)
        /\ calls # << >> => calls[1].op = "analyze_query"
        /\ HasCall("rerank_search_results") => pc \notin {"analyze", "mcp", "retrieve"})
  /\ [][(iteration' = iteration + 1 /\ iteration >= 1) =>
          HasCall("validate_answer")]_vars

C19_Witness ==
  /\ pc = "validate"
  /\ iteration = 2
  /\ Len(calls) = 6
  /\ calls[2].op = "interact_with_mcp_servers"
  /\ calls[3].op = "tool_planning"
  /\ calls[4].op = "query_collection"
  /\ calls[5].op = "rerank_search_results"
  /\ calls[6].op = "generate_answer"

\* C25: when every external call returns or fails, process() returns in the
\* end.
C25_EventuallyReturns == <>Returned

\* C26: the final_query returned is the working query generate_answer and
\* validate_answer were given in the terminal attempt, accepted or not, and
\* no rewrite follows that attempt's validation.
C26_FinalQueryIsTerminalQuery ==
  (Returned /\ iteration >= 1) =>
    /\ HasCall("generate_answer") /\ HasCall("validate_answer")
    /\ \A i \in 1..Len(calls) :
         /\ calls[i].op = "generate_answer" => calls[i].query = result.final_query
         /\ calls[i].op = "validate_answer" => calls[i].arg = result.final_query
    /\ ~HasCall("rewrite_query")

C26_Witness ==
  /\ Returned
  /\ acceptedAt = 0
  /\ iteration = 2
  /\ result.final_query = <<"X">>
  /\ LastCall.op = "validate_answer"

\* C27: with a non-empty original query the working query is non-empty at
\* the start of every attempt and in the final_query returned.
C27_WorkingQueryNonEmpty ==
  query # << >> =>
    /\ pc = "analyze" => current_query # << >>
    /\ Returned => result.final_query # << >>

\* ------------------------------------------------------------ rerank claims
Aligned(r) ==
  /\ "document" \in DOMAIN r
  /\ "metadata" \in DOMAIN r
  /\ Len(r["document"]) = Len(r["metadata"])

\* The passage-metadata pairs of a source, with their multiplicity
PairBag(r) ==
  LET pairs == [i \in 1..Len(r["document"]) |-> <<r["document"][i], r["metadata"][i]>>]
  IN [x \in {pairs[i] : i \in 1..Len(pairs)} |->
        Cardinality({i \in 1..Len(pairs) : pairs[i] = x})]

\* C10: after a rerank pass, every source whose passages and metadata were
\* index-aligned and of equal length still has both lists of equal length,
\* and each passage stands at the index of the metadata entry it was paired
\* with, whatever the scorer did.
C10_RerankKeepsAlignment ==
  rr_pc = "out" =>
    \A i \in 1..Len(rr_input) :
      Aligned(rr_input[i]) =>
        \E j \in 1..Len(rr_output) :
          /\ rr_output[j]["id"] = rr_input[i]["id"]
          /\ Aligned(rr_output[j])
          /\ PairBag(rr_output[j]) = PairBag(rr_input[i])

C10_Witness ==
  /\ rr_pc = "out"
  /\ Len(rr_input) = 2
  /\ Aligned(rr_input[1])
  /\ \E j \in 1..Len(rr_output) :
       /\ rr_output[j]["id"] = 1
       /\ rr_output[j]["document"] # rr_input[1]["document"]
       /\ rr_output[j]["metadata"] # rr_input[1]["metadata"]

\* The scorer was called in the pass and returned its scores
Scored == rr_pc = "out" /\ ScorerCalled(rr_input, rr_function) /\ ~rr_scorer.raises

\* The score the scorer gave the k-th passage of the i-th source passed in:
\* the score at the passage's position in the batch of pairs (0.0 when the
\* scorer returned fewer scores than pairs)
ScoreAt(i, k) ==
  LET pos == Len(Sentences(SubSeq(rr_input, 1, i - 1))) + k
  IN IF pos <= Len(rr_scorer.scores) THEN rr_scorer.scores[pos] ELSE 0

\* The index in rr_input of a source returned
InputOf(out) == CHOOSE i \in 1..Len(rr_input) : rr_input[i]["id"] = out["id"]

\* The passages of out are passages of the i-th source passed in, each taken
\* once, in an order of descending score
OrderedByScore(i, out) ==
  LET n == Len(rr_input[i]["document"])
      m == Len(out["document"])
  IN \E p \in [1..m -> 1..n] :
       /\ \A x, y \in 1..m : x # y => p[x] # p[y]
       /\ \A x \in 1..m : out["document"][x] = rr_input[i]["document"][p[x]]
       /\ \A x \in 1..(m - 1) : ScoreAt(i, p[x]) >= ScoreAt(i, p[x + 1])

\* C11: after a pass in which the scorer returned scores, the passages of
\* every source are in descending order of the score the scorer gave them at
\* their position in the batch of pairs.
C11_PassagesByScore ==
  Scored =>
    \A j \in 1..Len(rr_output) :
      HasDocument(rr_output[j]) => OrderedByScore(InputOf(rr_output[j]), rr_output[j])

C11_Witness ==
  /\ Scored
  /\ Len(rr_input) = 2
  /\ Aligned(rr_input[2]) /\ Len(rr_input[2]["document"]) = 2
  /\ ScoreAt(2, 1) < ScoreAt(2, 2)
  /\ \E j \in 1..Len(rr_output) :
       /\ rr_output[j]["id"] = 2
       /\ rr_output[j]["document"] = <<rr_input[2]["document"][2], rr_input[2]["document"][1]>>

\* The highest score the scorer gave a passage of the i-th source passed in
TopScore(i) ==
  LET n == Len(rr_input[i]["document"])
  IN CHOOSE t \in {ScoreAt(i, k) : k \in 1..n} : \A k \in 1..n : ScoreAt(i, k) <= t

HasPassages(r) == HasDocument(r) /\ r["document"] # << >>

\* C12: after a pass in which the scorer returned scores, the sources are in
\* descending order of their own highest passage score.
C12_SourcesByTopScore ==
  Scored =>
    \A j \in 1..(Len(rr_output) - 1) :
      LET a == InputOf(rr_output[j])
          b == InputOf(rr_output[j + 1])
      IN (HasPassages(rr_input[a]) /\ HasPassages(rr_input[b]))
           => TopScore(a) >= TopScore(b)

\* ------------------------------------------------------ lone-call claims
ToolsReturned == call_pc = "out" /\ call_op = "interact_with_mcp_servers"

Providers == {call_args.mcp_clients[i] : i \in 1..Len(call_args.mcp_clients)}

\* No provider yields a tool spec: its listing fails or is empty
NoToolSpec ==
  \A p \in Providers : call_resp.listing[p].raises \/ call_resp.listing[p].tools = << >>

\* C13: the tool-planning gateway call is made only if some tool spec was
\* enumerated; with no provider, or with only failed or empty listings, the
\* orchestrator returns no result, asks for no plan and invokes no tool.
C13_PlansOnlyWithTools ==
  ToolsReturned =>
    /\ call_out.planned => ~NoToolSpec
    /\ NoToolSpec =>
         call_out.results = << >> /\ ~call_out.planned /\ call_out.invoked = << >>

C13_Witness ==
  /\ ToolsReturned
  /\ call_args.mcp_clients = <<"p1", "p2">>
  /\ call_resp.listing["p1"].raises
  /\ ~call_resp.listing["p2"].raises
  /\ NoToolSpec
  /\ call_out.results = << >>

AnalyzeReturned == call_pc = "out" /\ call_op = "analyze_query"

\* The gateway answered with a text (the empty text when it had no choices key)
HasText == call_resp.kind \in {"ok", "missing"}

\* The text has a "{" and a "}" and the span from the first "{" to the last
\* "}" decodes
DecodableSpan(text) ==
  /\ Find(text, "{") # -1
  /\ RFind(text, "}") # -1
  /\ JsonLoads(Slice(text, Find(text, "{"), RFind(text, "}") + 1)).ok

\* C15: when the analyzer's response text has no "{", no "}", or a span that
\* does not decode, needs_additional_data is true exactly when the
\* lower-cased text contains need, require, yes or true; the confidence is
\* 0.6 and rewritten_query is the input query.
C15_KeywordFallback ==
  (AnalyzeReturned /\ HasText /\ ~DecodableSpan(call_resp.content)) =>
    /\ call_out.needs_additional_data
         <=> AnyWord(call_resp.content, {"need", "require", "yes", "true"})
    /\ call_out.confidence = 6
    /\ call_out.rewritten_query = call_args.query

C15_Witness ==
  /\ AnalyzeReturned
  /\ call_resp = Content(<<"required">>)
  /\ call_out.needs_additional_data
  /\ call_out.confidence = 6

\* The text is prose without braces followed by one analysis object
ProseThenObject(text) ==
  /\ Len(text) >= 4
  /\ \A i \in 1..(Len(text) - 3) : text[i] \notin {"{", "}"}
  /\ text[Len(text) - 2] = "{"
  /\ text[Len(text) - 1] \in {"oaX", "oaNo", "oaYes"}
  /\ text[Len(text)] = "}"

ObjectOf(text) == ObjOf(text[Len(text) - 1])

\* C16 as stated: prose followed by one well-formed object gives that
\* object's needs_additional_data, rewritten_query and confidence.
C16_AsStated ==
  (AnalyzeReturned /\ HasText /\ ProseThenObject(call_resp.content)) =>
    /\ call_out.needs_additional_data = ObjectOf(call_resp.content).needs_additional_data
    /\ call_out.rewritten_query = ObjectOf(call_resp.content).rewritten_query
    /\ call_out.confidence = ObjectOf(call_resp.content).confidence

\* C16 as amended: prose followed by one well-formed object gives that
\* object's needs_additional_data and confidence whatever the prose says, and
\* its rewritten_query when that is a non-empty text; a null or empty
\* rewritten_query is replaced by the input query.
C16_ObjectDecoded ==
  (AnalyzeReturned /\ HasText /\ ProseThenObject(call_resp.content)) =>
    LET obj == ObjectOf(call_resp.content) IN
    /\ call_out.needs_additional_data = obj.needs_additional_data
    /\ call_out.rewritten_query =
         IF Falsy(obj.rewritten_query) THEN call_args.query ELSE obj.rewritten_query
    /\ call_out.confidence = obj.confidence
    /\ call_out.reasoning = obj.reasoning

C16_Witness ==
  /\ AnalyzeReturned
  /\ call_resp = Content(<<"Yes", "{", "oaX", "}">>)
  /\ call_out.needs_additional_data
  /\ call_out.rewritten_query = <<"X">>
  /\ call_out.confidence = 9

\* C20: a provider whose listing failed is left out of the attempt, and the
\* other providers are still enumerated: its tools are not in the catalogue
\* and none of its tools is invoked, whatever the plan.
C20_FailedProviderExcluded ==
  ToolsReturned =>
    \A p \in Providers :
      IF call_resp.listing[p].raises
      THEN /\ \A i \in 1..Len(call_out.available) : call_out.available[i].server_id # p
           /\ \A i \in 1..Len(call_out.invoked) : call_out.invoked[i].server_id # p
      ELSE \A k \in 1..Len(call_resp.listing[p].tools) :
             InSeq([server_id |-> p, tool_name |-> call_resp.listing[p].tools[k]],
                   call_out.available)

PlanDecoded ==
  /\ call_out.planned
  /\ ~ChoiceContent(call_resp.plan).raised
  /\ ExtractJson(call_resp.plan.content).found

\* The decoded plan
Plan == Get(ExtractJson(call_resp.plan.content).value, "tools_to_use", << >>)

\* The planned invocations with a registered provider whose call_tool does
\* not fail, in plan order
Succeeding ==
  SelectSeq([i \in 1..Len(Plan) |-> i],
            LAMBDA i : Plan[i].server_id \in Providers /\ ~call_resp.callRaises[i])

\* C21: for a decoded plan the orchestrator returns one ToolResult for each
\* planned invocation whose provider is registered and whose call_tool
\* succeeded, in plan order; an invocation that fails or names an
\* unregistered provider is left out and stops no later invocation.
C21_OneResultPerSuccess ==
  (ToolsReturned /\ PlanDecoded) =>
    call_out.results =
      [k \in 1..Len(Succeeding) |->
         ToolResult(Plan[Succeeding[k]].server_id, Plan[Succeeding[k]].tool_name,
                    call_args.query)]

\* C29: every (provider id, tool name) given to call_tool is in the catalogue
\* enumerated in the same call.
C29_InvokedWereOffered ==
  ToolsReturned =>
    \A i \in 1..Len(call_out.invoked) : InSeq(call_out.invoked[i], call_out.available)

\* The gateway response a lone call read: the planning response for the
\* orchestrator
GatewayResponse ==
  IF call_op = "interact_with_mcp_servers" THEN call_resp.plan ELSE call_resp

\* What the stage called returns when the gateway answers resp
StageResult(resp) ==
  CASE call_op = "analyze_query" -> analyze_query(call_args.query, resp)
    [] call_op = "generate_answer" ->
         generate_answer(call_args.query, call_args.context, call_args.mcp_results, resp)
    [] call_op = "validate_answer" ->
         validate_answer(call_args.query, call_args.answer, resp)
    [] call_op = "rewrite_query" ->
         rewrite_query(call_args.original_query, call_args.answer,
                       call_args.validation_result, resp)
    [] OTHER ->
         interact_with_mcp_servers(call_args.query, call_args.mcp_clients,
                                   call_resp.listing, resp, call_resp.callRaises)

\* C22: in every stage that reads a gateway response, a response with no
\* choice (no choices field, or an empty list of choices) gives what the
\* empty generated text gives, not what a fault gives.
C22_NoChoiceIsEmptyText ==
  (call_pc = "out" /\ GatewayResponse.kind \in {"missing", "empty"}) =>
    call_out = StageResult(Content(<< >>))

\* ------------------------------------------------------ more rerank claims
\* C23: the pass returns its input as it was (sources, passages and metadata
\* in their order) when no scoring function is configured, when there is no
\* source, and when the scorer call fails.
C23_NoOpReturnsInput ==
  (rr_pc = "out" /\ (~rr_function \/ rr_input = << >> \/ rr_scorer.raises)) =>
    rr_output = rr_input

C23_Witness ==
  /\ rr_pc = "out"
  /\ rr_function
  /\ rr_scorer.raises
  /\ Len(rr_input) = 2
  /\ HasPassages(rr_input[1]) /\ ~Aligned(rr_input[1])
  /\ rr_output = rr_input

\* The scorer returned fewer scores than pairs were sent
FewerScores == Scored /\ Len(rr_scorer.scores) < Len(Sentences(rr_input))

\* C24: when the scorer returns fewer scores than pairs were sent, the
\* scores are used in batch order across the sources, a passage past their
\* end counts as 0.0, every source comes out in descending score and keeps
\* all the passages it had with a metadata entry.
C24_MissingScoresAreZero ==
  FewerScores =>
    \A j \in 1..Len(rr_output) :
      HasDocument(rr_output[j]) =>
        /\ OrderedByScore(InputOf(rr_output[j]), rr_output[j])
        /\ Aligned(rr_input[InputOf(rr_output[j])]) =>
             /\ Aligned(rr_output[j])
             /\ Len(rr_output[j]["document"])
                  = Len(rr_input[InputOf(rr_output[j])]["document"])

C24_Witness ==
  /\ FewerScores
  /\ Len(rr_input) = 2
  /\ Aligned(rr_input[1]) /\ Len(rr_input[1]["document"]) = 2
  /\ Aligned(rr_input[2]) /\ Len(rr_input[2]["document"]) = 2
  /\ rr_scorer.scores = <<0, 2, 1>>
  /\ rr_output[1]["document"] = <<"b", "a">>
  /\ rr_output[2]["document"] = <<"a", "b">>

\* The passages of a source, with their multiplicity
PassageBag(r) ==
  [x \in {r["document"][i] : i \in 1..Len(r["document"])} |->
     Cardinality({i \in 1..Len(r["document"]) : r["document"][i] = x})]

\* C28: the pass only permutes the passages of a source that has a passage
\* list, with or without a full metadata list: none is dropped or added.
C28_PassagesOnlyPermuted ==
  rr_pc = "out" =>
    \A j \in 1..Len(rr_output) :
      HasDocument(rr_output[j]) =>
        PassageBag(rr_output[j]) = PassageBag(rr_input[InputOf(rr_output[j])])

\* The collection has an index in memory
Indexed(c) == c \in DOMAIN fa_indices

\* C30: after any sequence of insert and delete calls on a collection, its
\* index holds as many vectors as its document store holds entries and the
\* i-th index vector is the vector of the i-th entry, so every document a
\* search returns carries the vector that matched.
C30_IndexMirrorsStore ==
  /\ \A c \in FaissCollections :
       Indexed(c) =>
         /\ c \in DOMAIN fa_doc_stores
         /\ Len(fa_indices[c]) = Len(fa_doc_stores[c])
         /\ \A i \in 1..Len(fa_indices[c]) :
              i <= Len(fa_doc_stores[c]) =>
                fa_indices[c][i] = fa_doc_stores[c][i].vector
  /\ \A j \in 1..Len(fa_found) : fa_found[j].vector = fa_found[j].hit

====
